---- MODULE Spec2Model ----
(***************************************************************************)
(* Model of the in-memory session manager of vpatel95/session-manager      *)
(* (src/session.go).  The file holds two definitions of the package: the   *)
(* first at lines 1-318, the second at lines 320-590.  The variable impl   *)
(* says which of the two is running; where the two differ the actions      *)
(* branch on it.                                                           *)
(*                                                                         *)
(* Strings are sequences of bytes: "a" is <<97>>, "%" is <<37>>, "" is     *)
(* <<>>.  Sessions are heap objects: heap[i] is the record *Session i      *)
(* points to, and the table sm.sessions maps identifiers to pointers.      *)
(*                                                                         *)
(* sm.lock is a sync.RWMutex: readers counts the read locks held, writer   *)
(* is the process holding the write lock.  A critical section that is      *)
(* entered and left inside one function without blocking is one action;    *)
(* the lock variables change only where a lock is held from one action to  *)
(* the next (the sweep's scan) or is never released.                       *)
(*                                                                         *)
(* removed is a history variable: the sessions that a successful           *)
(* SessionDestroy or a sweep has taken out of the table.  No action reads  *)
(* it.                                                                     *)
(***************************************************************************)
EXTENDS Integers, Sequences, FiniteSets, Bags, TLC

\* ------------------------------------------------------------- bounds
NumClients == 2          \* request-handling goroutines
MaxCalls == 3            \* calls the clients start in one run
MaxObjs == 2             \* sessions allocated in one run
MaxTime == 2             \* the clock saturates here
MaxPending == 1          \* SessionUpdate goroutines in flight
MaxLifetimeBound == 1    \* Config.MaxLifetime is drawn from 1..this

Clients == 1..NumClients
Cleaner == 0             \* the goroutine New starts, and later the timer's
Procs == Clients \cup {Cleaner}

Nil == 0                 \* the nil *Session
Ptrs == 1..MaxObjs

\* ------------------------------------------------------------ strings
EmptyStr == <<>>
SidA == <<97>>
SidB == <<98>>
Sids == {EmptyStr, SidA, SidB}

ishex(c) == c \in (48..57) \cup (97..102) \cup (65..70)

unhex(c) ==
  IF c \in 48..57 THEN c - 48
  ELSE IF c \in 97..102 THEN c - 97 + 10
  ELSE c - 65 + 10

\* First pass of url.QueryUnescape: a "%" not followed by two hex digits.
RECURSIVE BadEscape(_, _)
BadEscape(s, i) ==
  IF i > Len(s) THEN FALSE
  ELSE IF s[i] = 37
    THEN IF i + 2 > Len(s) \/ ~ishex(s[i + 1]) \/ ~ishex(s[i + 2])
           THEN TRUE
           ELSE BadEscape(s, i + 3)
    ELSE BadEscape(s, i + 1)

\* Second pass: "%XX" becomes the byte, "+" becomes a space.
RECURSIVE Unescaped(_, _)
Unescaped(s, i) ==
  IF i > Len(s) THEN <<>>
  ELSE IF s[i] = 37
    THEN <<unhex(s[i + 1]) * 16 + unhex(s[i + 2])>> \o Unescaped(s, i + 3)
    ELSE IF s[i] = 43
      THEN <<32>> \o Unescaped(s, i + 1)
      ELSE <<s[i]>> \o Unescaped(s, i + 1)

QueryUnescape(s) ==
  IF BadEscape(s, 1)
    THEN [sid |-> EmptyStr, err |-> "EscapeError"]
    ELSE [sid |-> Unescaped(s, 1), err |-> "nil"]

\* ----------------------------------------------------------- requests
\* r.Cookie(sm.Cookie.Name) and r.Header[sm.Config.SessionHeader].
Req(present, value, found, vals) ==
  [cookie |-> [present |-> present, value |-> value],
   header |-> [found |-> found, vals |-> vals]]

\* Cookie absent, empty, plain, malformed ("%") and escaped ("%62" is "b");
\* header absent, without values, with an empty value, with one and two values.
Requests ==
  { Req(FALSE, EmptyStr, FALSE, <<>>),
    Req(FALSE, EmptyStr, TRUE, <<>>),
    Req(FALSE, EmptyStr, TRUE, <<EmptyStr>>),
    Req(FALSE, EmptyStr, TRUE, <<SidB>>),
    Req(FALSE, EmptyStr, TRUE, <<SidB, SidA>>),
    Req(TRUE, EmptyStr, FALSE, <<>>),
    Req(TRUE, EmptyStr, TRUE, <<SidB>>),
    Req(TRUE, SidA, FALSE, <<>>),
    Req(TRUE, SidA, TRUE, <<SidB>>),
    Req(TRUE, <<37>>, TRUE, <<SidB>>),
    Req(TRUE, <<37, 54, 50>>, FALSE, <<>>) }

\* sm.Config.EnableHttpHeader and sm.Config.AutoRefreshSession are public
\* fields that the caller sets at any time (the tests set them between calls)
\* and that a call reads once: each call finds either value.
Flags == [EnableHttpHeader : BOOLEAN, AutoRefreshSession : BOOLEAN]

\* Every cookie above with every header above.
CookieValues == {EmptyStr, SidA, <<37>>, <<37, 54, 50>>}
HeaderValues == {<<>>, <<EmptyStr>>, <<SidB>>, <<SidB, SidA>>}
AllRequests ==
  {Req(FALSE, EmptyStr, FALSE, <<>>)}
    \cup {Req(FALSE, EmptyStr, TRUE, h) : h \in HeaderValues}
    \cup {Req(TRUE, c, FALSE, <<>>) : c \in CookieValues}
    \cup {Req(TRUE, c, TRUE, h) : c \in CookieValues, h \in HeaderValues}

VARIABLES
  impl,      \* 1: the first definition of the package, 2: the second
  cfg,       \* sm.Config.MaxLifetime and sm.Config.CleanerInterval
  sessions,  \* sm.sessions: identifier -> pointer
  heap,      \* the Session objects allocated so far, by pointer
  readers,   \* sm.lock: read locks held
  writer,    \* sm.lock: holder of the write lock, or NoProc
  now,       \* time.Now()
  pc,        \* where each process stands
  frame,     \* the arguments and locals of each call in progress
  resp,      \* the call that returned in the latest step, with its results
  updates,   \* bag of SessionUpdate goroutines started by `go`
  timers,    \* bag of time.AfterFunc timers, by due time
  calls,     \* calls started by the clients, Session methods included
  removed    \* history: the sessions a successful Destroy or a sweep removed

vars == <<impl, cfg, sessions, heap, readers, writer, now, pc, frame, resp,
          updates, timers, calls, removed>>

NoProc == Nil - 1

\* ------------------------------------------------------------ helpers
EmptyDict == [k \in {} |-> Nil]
Keys == {"k"}
Vals == {"v"}

\* A session created without its time stamp.
NewSessionNoStamp(sid) == [sessionId |-> sid, lastAccessed |-> 0, sd |-> EmptyDict]

NewSession(sid) == [sessionId |-> sid, lastAccessed |-> now, sd |-> EmptyDict]

\* delete() that removes nothing.
RemoveNothing(f, k) == f

\* A map assignment that keeps the entry already there.
PutIfAbsent(f, k, v) ==
  [x \in DOMAIN f \cup {k} |-> IF x \in DOMAIN f THEN f[x] ELSE v]

Put(f, k, v) == [x \in DOMAIN f \cup {k} |-> IF x = k THEN v ELSE f[x]]
Remove(f, k) == [x \in DOMAIN f \ {k} |-> f[x]]

Min(a, b) == IF a < b THEN a ELSE b

IdleFrame ==
  [op |-> "none", old |-> EmptyStr, sid |-> EmptyStr, s |-> Nil, ok |-> FALSE,
   todo |-> {}, t0 |-> 0]

InFlight(op, old, sid, s, ok) ==
  [op |-> op, old |-> old, sid |-> sid, s |-> s, ok |-> ok, todo |-> {}, t0 |-> 0]

NoResp ==
  [op |-> "none", old |-> EmptyStr, sid |-> EmptyStr, s |-> Nil, ok |-> FALSE,
   err |-> "nil"]

\* What a call hands back: s and err, with the identifiers it was about (sid is
\* the one a request resolved to) and the `ok` of its table lookup.
Returned(op, old, sid, s, ok, err) ==
  [op |-> op, old |-> old, sid |-> sid, s |-> s, ok |-> ok, err |-> err]

\* A Lock that does not wait for the writer.
CanLockBesideWriter == readers = 0

\* A Lock that does not wait for the readers.
CanLockBesideReaders == writer = NoProc

\* sync.RWMutex: RLock waits for the writer, Lock for the writer and the readers.
CanRLock == writer = NoProc
CanLock == writer = NoProc /\ readers = 0

\* A client starts a call.
Starts(p) == p \in Clients /\ pc[p] = "idle" /\ calls < MaxCalls

\* `for sid, s := range sm.sessions` as the language defines it when the map
\* changes during the range: an entry removed before it is reached is not
\* produced, an entry created during the range is produced or skipped.  todo is
\* the set of keys the range will still produce.  Only a sweep of the first
\* definition gives up the lock in the middle of its range.
Ranging == {q \in Procs : pc[q] \in {"gc_del", "gc_relock"}}

RangeInsert(F, k, vis) ==
  [q \in Procs |->
     IF q \in vis /\ k \notin DOMAIN sessions
       THEN [F[q] EXCEPT !.todo = @ \cup {k}]
       ELSE F[q]]

RangeDelete(F, k) == [q \in Procs |-> [F[q] EXCEPT !.todo = @ \ {k}]]

\* A count of the sessions ever created.
SessionCountAllocated == Len(heap)

SessionCount == Cardinality(DOMAIN sessions)

SessionExist(sid) == sid \in DOMAIN sessions

\* !Before in place of After: expired already at the limit.
ExpiredAtLimit(s) == now >= heap[s].lastAccessed + cfg.MaxLifetime

\* time.Now().After(s.lastAccessed.Add(sm.Config.MaxLifetime))
Expired(s) == now > heap[s].lastAccessed + cfg.MaxLifetime

\* ------------------------------------------------- identifier extraction
Cookie(r) ==
  IF r.cookie.present
    THEN [value |-> r.cookie.value, err |-> "nil"]
    ELSE [value |-> EmptyStr, err |-> "ErrNoCookie"]

\* GetSessionId that looks at the header before the cookie.
GetSessionIdHeaderFirst(r, fl) ==
  LET c == Cookie(r) IN
  IF fl.EnableHttpHeader /\ r.header.found /\ Len(r.header.vals) # 0
    THEN [sid |-> r.header.vals[1], err |-> "nil"]
    ELSE IF c.err # "nil" \/ c.value = EmptyStr
           THEN [sid |-> EmptyStr, err |-> c.err]
           ELSE QueryUnescape(c.value)

\* GetSessionId that turns to the header when the cookie does not unescape.
GetSessionIdFallsThrough(r, fl) ==
  LET c == Cookie(r) IN
  IF c.err # "nil" \/ c.value = EmptyStr \/ QueryUnescape(c.value).err # "nil"
    THEN IF fl.EnableHttpHeader /\ r.header.found /\ Len(r.header.vals) # 0
           THEN [sid |-> r.header.vals[1], err |-> "nil"]
           ELSE [sid |-> EmptyStr, err |-> IF c.err # "nil" THEN c.err
                                           ELSE QueryUnescape(c.value).err]
    ELSE QueryUnescape(c.value)

GetSessionId(r, fl) ==
  LET c == Cookie(r) IN
  IF c.err # "nil" \/ c.value = EmptyStr
    THEN IF fl.EnableHttpHeader /\ r.header.found /\ Len(r.header.vals) # 0
           THEN [sid |-> r.header.vals[1], err |-> "nil"]
           ELSE [sid |-> EmptyStr, err |-> c.err]
    ELSE QueryUnescape(c.value)

GetSessionIdFromHeader(r, fl) ==
  IF fl.EnableHttpHeader /\ r.header.found /\ Len(r.header.vals) # 0
    THEN [sid |-> r.header.vals[1], err |-> "nil"]
    ELSE [sid |-> EmptyStr, err |-> "HeaderError"]

GetSessionIdFromCookie(r) ==
  LET c == Cookie(r) IN
  IF c.err # "nil" \/ c.value = EmptyStr
    THEN [sid |-> EmptyStr, err |-> c.err]
    ELSE QueryUnescape(c.value)

\* ---------------------------------------------------------------- Init
\* New(): an empty table, and `go sm.GlobalCleaner()` not yet running.
Init ==
  /\ impl \in {1, 2}
  /\ cfg \in [MaxLifetime : 1..MaxLifetimeBound, CleanerInterval : {1}]
  /\ sessions = [x \in {} |-> Nil]
  /\ heap = <<>>
  /\ readers = 0
  /\ writer = NoProc
  /\ now = 0
  /\ pc = [p \in Procs |-> IF p = Cleaner THEN "gc_start" ELSE "idle"]
  /\ frame = [p \in Procs |-> IdleFrame]
  /\ resp = NoResp
  /\ updates = EmptyBag
  /\ timers = EmptyBag
  /\ calls = 0
  /\ removed = {}

\* ------------------------------------------------------------- actions
SessionCreate(p, sid) ==
  /\ Starts(p)
  /\ CanLock
  /\ Len(heap) < MaxObjs
  /\ \E vis \in SUBSET Ranging :
       LET s == Len(heap) + 1 IN
       /\ heap' = Append(heap, NewSession(sid))
       /\ sessions' = Put(sessions, sid, s)
       /\ frame' = RangeInsert(frame, sid, vis)
       /\ resp' = Returned("Create", EmptyStr, sid, s, FALSE, "nil")
  /\ calls' = calls + 1
  /\ UNCHANGED <<impl, cfg, readers, writer, now, pc, updates, timers, removed>>

SessionDestroy(p, sid) ==
  /\ Starts(p)
  /\ CanLock
  /\ IF sid \in DOMAIN sessions
       THEN /\ sessions' = Remove(sessions, sid)
            /\ removed' = removed \cup {sessions[sid]}
            /\ frame' = RangeDelete(frame, sid)
            /\ resp' = Returned("Destroy", EmptyStr, sid, Nil, TRUE, "nil")
       ELSE /\ sessions' = sessions
            /\ removed' = removed
            /\ frame' = frame
            /\ resp' = Returned("Destroy", EmptyStr, sid, Nil, FALSE,
                                "NotFound")
  /\ calls' = calls + 1
  /\ UNCHANGED <<impl, cfg, heap, readers, writer, now, pc, updates, timers>>

\* SessionUpdate that finds the session and forgets the assignment.
TouchNothing(sid) == heap

\* The body of SessionUpdate, run by a client or by a goroutine of its own.
Touch(sid) ==
  IF sid \in DOMAIN sessions
    THEN [heap EXCEPT ![sessions[sid]].lastAccessed = now]
    ELSE heap

SessionUpdate(p, sid) ==
  /\ Starts(p)
  /\ CanLock
  /\ heap' = Touch(sid)
  /\ resp' = Returned("Update", EmptyStr, sid, Nil, sid \in DOMAIN sessions,
                      IF sid \in DOMAIN sessions THEN "nil" ELSE "NotFound")
  /\ calls' = calls + 1
  /\ UNCHANGED <<impl, cfg, sessions, readers, writer, now, pc, frame, updates,
                 timers, removed>>

\* `go sm.SessionUpdate(sid)` gets the lock and runs.
UpdateRun ==
  \E u \in BagToSet(updates) :
    /\ CanLock
    /\ heap' = Touch(u)
    /\ updates' = updates (-) SetToBag({u})
    /\ resp' = NoResp
    /\ UNCHANGED <<impl, cfg, sessions, readers, writer, now, pc, frame, timers,
                   calls, removed>>

\* `go sm.SessionUpdate(sid)` inside SessionRead and SessionReadOrCreate.
Spawned(sid, fl) ==
  IF fl.AutoRefreshSession THEN updates (+) SetToBag({sid}) ELSE updates

MaySpawn(fl) == fl.AutoRefreshSession => BagCardinality(updates) < MaxPending

\* The first definition returns from the not-found path with the read lock
\* held (no RUnlock before line 229); the second defers the RUnlock.
SessionRead(p, r, fl) ==
  /\ Starts(p)
  /\ LET g == GetSessionId(r, fl) IN
     IF g.err # "nil" \/ g.sid = EmptyStr
       THEN /\ resp' = Returned("Read", EmptyStr, g.sid, Nil, FALSE, g.err)
            /\ UNCHANGED <<readers, updates>>
       ELSE /\ CanRLock
            /\ IF g.sid \in DOMAIN sessions
                 THEN /\ MaySpawn(fl)
                      /\ updates' = Spawned(g.sid, fl)
                      /\ resp' = Returned("Read", EmptyStr, g.sid,
                                          sessions[g.sid], TRUE, "nil")
                      /\ UNCHANGED readers
                 ELSE /\ resp' = Returned("Read", EmptyStr, g.sid, Nil, FALSE,
                                          "NotFound")
                      /\ readers' = IF impl = 1 THEN readers + 1 ELSE readers
                      /\ UNCHANGED updates
  /\ calls' = calls + 1
  /\ UNCHANGED <<impl, cfg, sessions, heap, writer, now, pc, frame, timers,
                 removed>>

\* A rename that also stamps the session, as a creation does.
RenamedAndStamped(s, sid) ==
  [heap EXCEPT ![s].sessionId = sid, ![s].lastAccessed = now]

\* `s.sessionId = sid` at lines 155 and 467.
Renamed(s, sid) == [heap EXCEPT ![s].sessionId = sid]

\* A rename that forgets the delete.
MovedKeepsOld(oldSid, sid, s) == Put(sessions, sid, s)

\* The table after `sm.sessions[sid] = s; delete(sm.sessions, oldSid)`.
Moved(oldSid, sid, s) == Remove(Put(sessions, sid, s), oldSid)

\* SessionRefresh.  The second definition does it all under the write lock; the
\* first looks oldSid up under the read lock, lets go of it, and takes the
\* write lock in RefreshMove or RefreshNew.
SessionRefresh(p, oldSid, sid) ==
  /\ Starts(p)
  /\ calls' = calls + 1
  /\ IF impl = 1
       THEN /\ CanRLock
            /\ IF oldSid \in DOMAIN sessions
                 THEN /\ pc' = [pc EXCEPT ![p] = "rf_move"]
                      /\ frame' = [frame EXCEPT
                                     ![p] = InFlight("Refresh", oldSid, sid,
                                                     sessions[oldSid], TRUE)]
                 ELSE /\ pc' = [pc EXCEPT ![p] = "rf_new"]
                      /\ frame' = [frame EXCEPT
                                     ![p] = InFlight("Refresh", oldSid, sid,
                                                     Nil, FALSE)]
            /\ resp' = NoResp
            /\ UNCHANGED <<sessions, heap>>
       ELSE /\ CanLock
            /\ IF oldSid \in DOMAIN sessions
                 THEN LET s == sessions[oldSid] IN
                      /\ heap' = Renamed(s, sid)
                      /\ sessions' = Moved(oldSid, sid, s)
                      /\ resp' = Returned("Refresh", oldSid, sid, s, TRUE,
                                          "nil")
                 ELSE LET s == Len(heap) + 1 IN
                      /\ Len(heap) < MaxObjs
                      /\ heap' = Append(heap, NewSession(sid))
                      /\ sessions' = Put(sessions, sid, s)
                      /\ resp' = Returned("Refresh", oldSid, sid, s, FALSE,
                                          "nil")
            /\ UNCHANGED <<pc, frame>>
  /\ UNCHANGED <<impl, cfg, readers, writer, now, updates, timers, removed>>

\* Lines 154-160: the write half of the first definition's rename.
RefreshMove(p) ==
  /\ pc[p] = "rf_move"
  /\ CanLock
  /\ LET f == frame[p] IN
     \E vis \in SUBSET Ranging :
       /\ heap' = Renamed(f.s, f.sid)
       /\ sessions' = Moved(f.old, f.sid, f.s)
       /\ frame' = [RangeDelete(RangeInsert(frame, f.sid, vis), f.old) EXCEPT
                      ![p] = IdleFrame]
       /\ resp' = Returned("Refresh", f.old, f.sid, f.s, TRUE, "nil")
  /\ pc' = [pc EXCEPT ![p] = "idle"]
  /\ UNCHANGED <<impl, cfg, readers, writer, now, updates, timers, calls,
                 removed>>

\* Lines 163-172: the write half of the first definition's create.
RefreshNew(p) ==
  /\ pc[p] = "rf_new"
  /\ CanLock
  /\ Len(heap) < MaxObjs
  /\ LET f == frame[p]
         s == Len(heap) + 1 IN
     \E vis \in SUBSET Ranging :
       /\ heap' = Append(heap, NewSession(f.sid))
       /\ sessions' = Put(sessions, f.sid, s)
       /\ frame' = [RangeInsert(frame, f.sid, vis) EXCEPT ![p] = IdleFrame]
       /\ resp' = Returned("Refresh", f.old, f.sid, s, FALSE, "nil")
  /\ pc' = [pc EXCEPT ![p] = "idle"]
  /\ UNCHANGED <<impl, cfg, readers, writer, now, updates, timers, calls,
                 removed>>

\* SessionReadOrCreate exists in the first definition only.
SessionReadOrCreate(p, r, fl) ==
  /\ impl = 1
  /\ Starts(p)
  /\ LET g == GetSessionId(r, fl) IN
     IF g.err # "nil" \/ g.sid = EmptyStr
       THEN /\ resp' = Returned("ReadOrCreate", EmptyStr, g.sid, Nil, FALSE,
                                g.err)
            /\ UNCHANGED <<pc, frame, updates>>
       ELSE /\ CanRLock
            /\ IF g.sid \in DOMAIN sessions
                 THEN /\ MaySpawn(fl)
                      /\ updates' = Spawned(g.sid, fl)
                      /\ resp' = Returned("ReadOrCreate", EmptyStr, g.sid,
                                          sessions[g.sid], TRUE, "nil")
                      /\ UNCHANGED <<pc, frame>>
                 ELSE /\ frame' = [frame EXCEPT
                                     ![p] = InFlight("ReadOrCreate", EmptyStr, g.sid,
                                                     Nil, FALSE)]
                      /\ pc' = [pc EXCEPT ![p] = "roc_new"]
                      /\ resp' = NoResp
                      /\ UNCHANGED updates
  /\ calls' = calls + 1
  /\ UNCHANGED <<impl, cfg, sessions, heap, readers, writer, now, timers,
                 removed>>

\* Lines 263-272.
ReadOrCreateNew(p) ==
  /\ pc[p] = "roc_new"
  /\ CanLock
  /\ Len(heap) < MaxObjs
  /\ LET f == frame[p]
         s == Len(heap) + 1 IN
     \E vis \in SUBSET Ranging :
       /\ heap' = Append(heap, NewSession(f.sid))
       /\ sessions' = Put(sessions, f.sid, s)
       /\ frame' = [RangeInsert(frame, f.sid, vis) EXCEPT ![p] = IdleFrame]
       /\ resp' = Returned("ReadOrCreate", EmptyStr, f.sid, s, FALSE, "nil")
  /\ pc' = [pc EXCEPT ![p] = "idle"]
  /\ UNCHANGED <<impl, cfg, readers, writer, now, updates, timers, calls,
                 removed>>

\* --------------------------------------------------------------- sweep
\* GlobalCleaner is entered by a client that calls it, by the goroutine New
\* starts and by the timer's goroutine (pc = "gc_start").  It takes the read
\* lock (first definition) or the write lock (second) and starts the range.
GcBegin(p) ==
  /\ \/ Starts(p) /\ calls' = calls + 1
     \/ pc[p] = "gc_start" /\ calls' = calls
  /\ IF impl = 1
       THEN CanRLock /\ readers' = readers + 1 /\ writer' = writer
       ELSE CanLock /\ writer' = p /\ readers' = readers
  /\ pc' = [pc EXCEPT ![p] = "gc_iter"]
  /\ frame' = [frame EXCEPT
                 ![p] = [InFlight("GlobalCleaner", EmptyStr, EmptyStr, Nil,
                                  FALSE) EXCEPT !.todo = DOMAIN sessions, !.t0 = now]]
  /\ resp' = NoResp
  /\ UNCHANGED <<impl, cfg, sessions, heap, now, updates, timers, removed>>

\* One turn of the loop: the range produces sid, s.
GcIter(p) ==
  /\ pc[p] = "gc_iter"
  /\ \E sid \in frame[p].todo :
       LET s == sessions[sid] IN
       IF s # Nil /\ Expired(s)
         THEN IF impl = 1
                THEN /\ readers' = readers - 1
                     /\ pc' = [pc EXCEPT ![p] = "gc_del"]
                     /\ frame' = [frame EXCEPT ![p].todo = @ \ {sid}, ![p].sid = sid]
                     /\ UNCHANGED <<sessions, removed>>
                ELSE /\ sessions' = Remove(sessions, sid)
                     /\ removed' = removed \cup {s}
                     /\ frame' = [frame EXCEPT ![p].todo = @ \ {sid}]
                     /\ UNCHANGED <<readers, pc>>
         ELSE /\ frame' = [frame EXCEPT ![p].todo = @ \ {sid}]
              /\ UNCHANGED <<sessions, readers, pc, removed>>
  /\ resp' = NoResp
  /\ UNCHANGED <<impl, cfg, heap, writer, now, updates, timers, calls>>

\* A delete that looks at the entry again under the write lock.
EvictedIfStillExpired(sid) ==
  IF sid \in DOMAIN sessions /\ Expired(sessions[sid])
    THEN Remove(sessions, sid)
    ELSE sessions

\* `delete(sm.sessions, sid)` at line 285: whatever is registered at sid now.
Evicted(sid) == Remove(sessions, sid)

\* Lines 284-286 of the first definition: Lock, delete, Unlock.
GcDelete(p) ==
  /\ pc[p] = "gc_del"
  /\ CanLock
  /\ sessions' = Evicted(frame[p].sid)
  /\ removed' = IF frame[p].sid \in DOMAIN sessions
                  THEN removed \cup {sessions[frame[p].sid]}
                  ELSE removed
  /\ frame' = [RangeDelete(frame, frame[p].sid) EXCEPT ![p].sid = EmptyStr]
  /\ pc' = [pc EXCEPT ![p] = "gc_relock"]
  /\ resp' = NoResp
  /\ UNCHANGED <<impl, cfg, heap, readers, writer, now, updates, timers, calls>>

\* Line 287.
GcRelock(p) ==
  /\ pc[p] = "gc_relock"
  /\ CanRLock
  /\ readers' = readers + 1
  /\ pc' = [pc EXCEPT ![p] = "gc_iter"]
  /\ resp' = NoResp
  /\ UNCHANGED <<impl, cfg, sessions, heap, writer, now, frame, updates, timers,
                 calls, removed>>

\* A sweep that arms two timers.
AfterFuncTwice ==
  timers (+) SetToBag({Min(now + cfg.CleanerInterval, MaxTime)})
         (+) SetToBag({Min(now + cfg.CleanerInterval, MaxTime)})

\* time.AfterFunc(sm.Config.CleanerInterval, func() { sm.GlobalCleaner() })
AfterFunc == timers (+) SetToBag({Min(now + cfg.CleanerInterval, MaxTime)})

\* The range is over: unlock, then schedule the next sweep.
GcFinish(p) ==
  /\ pc[p] = "gc_iter"
  /\ frame[p].todo = {}
  /\ IF impl = 1
       THEN readers' = readers - 1 /\ writer' = writer
       ELSE writer' = NoProc /\ readers' = readers
  /\ timers' = AfterFunc
  /\ pc' = [pc EXCEPT ![p] = "idle"]
  /\ frame' = [frame EXCEPT ![p] = IdleFrame]
  /\ resp' = IF p \in Clients
               THEN Returned("GlobalCleaner", EmptyStr, EmptyStr, Nil, FALSE,
                             "nil")
               ELSE NoResp
  /\ UNCHANGED <<impl, cfg, sessions, heap, now, updates, calls, removed>>

\* A timer is due: its function runs GlobalCleaner in a goroutine of its own.
TimerFire ==
  \E due \in BagToSet(timers) :
    /\ due <= now
    /\ pc[Cleaner] = "idle"
    /\ timers' = timers (-) SetToBag({due})
    /\ pc' = [pc EXCEPT ![Cleaner] = "gc_start"]
    /\ resp' = NoResp
    /\ UNCHANGED <<impl, cfg, sessions, heap, readers, writer, now, frame,
                   updates, calls, removed>>

\* ------------------------------------------------------- Session methods
\* Session.Set, by a client that was handed the session (every session was
\* handed to the caller that created it), under the session's own lock.
SessionSet(p, s, key, val) ==
  /\ Starts(p)
  /\ s \in 1..Len(heap)
  /\ heap' = [heap EXCEPT ![s].sd = Put(@, key, val)]
  /\ resp' = Returned("Set", EmptyStr, EmptyStr, s, TRUE, "nil")
  /\ calls' = calls + 1
  /\ UNCHANGED <<impl, cfg, sessions, readers, writer, now, pc, frame, updates,
                 timers, removed>>

\* The clock.  It saturates at MaxTime: time goes on, the model stops counting.
Tick ==
  /\ now < MaxTime
  /\ now' = now + 1
  /\ resp' = NoResp
  /\ UNCHANGED <<impl, cfg, sessions, heap, readers, writer, pc, frame, updates,
                 timers, calls, removed>>

Next ==
  \/ \E p \in Clients, sid \in Sids : SessionCreate(p, sid)
  \/ \E p \in Clients, sid \in Sids : SessionDestroy(p, sid)
  \/ \E p \in Clients, sid \in Sids : SessionUpdate(p, sid)
  \/ \E p \in Clients, r \in Requests, fl \in Flags : SessionRead(p, r, fl)
  \/ \E p \in Clients, oldSid \in Sids, sid \in Sids : SessionRefresh(p, oldSid, sid)
  \/ \E p \in Clients : RefreshMove(p)
  \/ \E p \in Clients : RefreshNew(p)
  \/ \E p \in Clients, r \in Requests, fl \in Flags : SessionReadOrCreate(p, r, fl)
  \/ \E p \in Clients : ReadOrCreateNew(p)
  \/ \E p \in Procs : GcBegin(p)
  \/ \E p \in Procs : GcIter(p)
  \/ \E p \in Procs : GcDelete(p)
  \/ \E p \in Procs : GcRelock(p)
  \/ \E p \in Procs : GcFinish(p)
  \/ \E p \in Clients, s \in Ptrs, key \in Keys, val \in Vals : SessionSet(p, s, key, val)
  \/ TimerFire
  \/ UpdateRun
  \/ Tick

Spec == Init /\ [][Next]_vars

\* ------------------------------------------------- other specifications
\* No process but p is inside a registry call.
Quiet(p) == \A q \in Procs \ {p} : pc[q] \in {"idle", "gc_start"}

\* The operations one at a time: a process steps only while every other one
\* is outside the registry.
SeqNext ==
  \/ \E p \in Clients, sid \in Sids : Quiet(p) /\ SessionCreate(p, sid)
  \/ \E p \in Clients, sid \in Sids : Quiet(p) /\ SessionDestroy(p, sid)
  \/ \E p \in Clients, sid \in Sids : Quiet(p) /\ SessionUpdate(p, sid)
  \/ \E p \in Clients, r \in Requests, fl \in Flags : Quiet(p) /\ SessionRead(p, r, fl)
  \/ \E p \in Clients, oldSid \in Sids, sid \in Sids :
       Quiet(p) /\ SessionRefresh(p, oldSid, sid)
  \/ \E p \in Clients : Quiet(p) /\ RefreshMove(p)
  \/ \E p \in Clients : Quiet(p) /\ RefreshNew(p)
  \/ \E p \in Clients, r \in Requests, fl \in Flags :
       Quiet(p) /\ SessionReadOrCreate(p, r, fl)
  \/ \E p \in Clients : Quiet(p) /\ ReadOrCreateNew(p)
  \/ \E p \in Procs : Quiet(p) /\ GcBegin(p)
  \/ \E p \in Procs : Quiet(p) /\ GcIter(p)
  \/ \E p \in Procs : Quiet(p) /\ GcDelete(p)
  \/ \E p \in Procs : Quiet(p) /\ GcRelock(p)
  \/ \E p \in Procs : Quiet(p) /\ GcFinish(p)
  \/ \E p \in Clients, s \in Ptrs, key \in Keys, val \in Vals :
       Quiet(p) /\ SessionSet(p, s, key, val)
  \/ TimerFire
  \/ (\A q \in Procs : pc[q] \in {"idle", "gc_start"}) /\ UpdateRun
  \/ Tick

SeqSpec == Init /\ [][SeqNext]_vars

\* The background sweep of the first definition together with clients that
\* create, read, update and destroy sessions.
FairNext ==
  \/ \E p \in Clients, sid \in Sids : SessionCreate(p, sid)
  \/ \E p \in Clients, sid \in Sids : SessionDestroy(p, sid)
  \/ \E p \in Clients, sid \in Sids : SessionUpdate(p, sid)
  \/ \E p \in Clients, r \in Requests, fl \in Flags : SessionRead(p, r, fl)
  \/ pc[Cleaner] = "gc_start" /\ GcBegin(Cleaner)
  \/ GcIter(Cleaner)
  \/ GcDelete(Cleaner)
  \/ GcRelock(Cleaner)
  \/ GcFinish(Cleaner)
  \/ TimerFire
  \/ UpdateRun
  \/ Tick

\* The scheduler runs every goroutine that can run, sync.RWMutex hands the
\* lock to every goroutine that keeps asking for it, timers fire and time
\* passes.  Clients are not obliged to start calls.
Fairness ==
  /\ SF_vars(pc[Cleaner] = "gc_start" /\ GcBegin(Cleaner))
  /\ SF_vars(GcIter(Cleaner))
  /\ SF_vars(GcDelete(Cleaner))
  /\ SF_vars(GcRelock(Cleaner))
  /\ SF_vars(GcFinish(Cleaner))
  /\ SF_vars(UpdateRun)
  /\ WF_vars(TimerFire)
  /\ WF_vars(Tick)

\* The first definition of the package, fairly scheduled.
FairInit == Init /\ impl = 1

FairSpec == FairInit /\ [][FairNext]_vars /\ Fairness

\* ------------------------------------------------- the extractors alone
\* What an extractor hands back, with the request and the flags it was given.
Extracted(op, r, fl, g) ==
  [op |-> op, old |-> EmptyStr, sid |-> g.sid, s |-> Nil, ok |-> FALSE,
   err |-> g.err, req |-> r, fl |-> fl]

\* The three extractors take no lock and touch nothing: one step each.
GetSessionIdCall(p, r, fl) ==
  /\ Starts(p)
  /\ resp' = Extracted("GetSessionId", r, fl, GetSessionId(r, fl))
  /\ calls' = calls + 1
  /\ UNCHANGED <<impl, cfg, sessions, heap, readers, writer, now, pc, frame,
                 updates, timers, removed>>

GetSessionIdFromHeaderCall(p, r, fl) ==
  /\ Starts(p)
  /\ resp' = Extracted("GetSessionIdFromHeader", r, fl,
                       GetSessionIdFromHeader(r, fl))
  /\ calls' = calls + 1
  /\ UNCHANGED <<impl, cfg, sessions, heap, readers, writer, now, pc, frame,
                 updates, timers, removed>>

GetSessionIdFromCookieCall(p, r, fl) ==
  /\ Starts(p)
  /\ resp' = Extracted("GetSessionIdFromCookie", r, fl, GetSessionIdFromCookie(r))
  /\ calls' = calls + 1
  /\ UNCHANGED <<impl, cfg, sessions, heap, readers, writer, now, pc, frame,
                 updates, timers, removed>>

ExtractNext ==
  \/ \E p \in Clients, r \in AllRequests, fl \in Flags : GetSessionIdCall(p, r, fl)
  \/ \E p \in Clients, r \in AllRequests, fl \in Flags :
       GetSessionIdFromHeaderCall(p, r, fl)
  \/ \E p \in Clients, r \in AllRequests, fl \in Flags :
       GetSessionIdFromCookieCall(p, r, fl)

ExtractSpec == Init /\ [][ExtractNext]_vars

\* ------------------------------------------------- one Session's methods
\* Keys and values of a session's data; NilVal is the nil interface value.
NilVal == "nil"
DataKeys == {"k", "j"}
DataVals == {"v", "w", NilVal}

\* The arguments of a Session method in progress.
DataFrame(op, s, key, val) ==
  [op |-> op, old |-> EmptyStr, sid |-> EmptyStr, s |-> s, ok |-> FALSE,
   todo |-> {}, t0 |-> 0, key |-> key, val |-> val]

\* What a Session method hands back.
DataResp(op, s, key, val, ok) ==
  [op |-> op, old |-> EmptyStr, sid |-> EmptyStr, s |-> s, ok |-> ok,
   err |-> "nil", key |-> key, val |-> val]

\* s.lock: who is between s.lock.Lock() / RLock() and the deferred unlock.
Writing(s) == {q \in Clients : pc[q] \in {"set", "delete"} /\ frame[q].s = s}
Reading(s) == {q \in Clients : pc[q] \in {"get", "exist"} /\ frame[q].s = s}

\* Set and Delete taking the read lock.
CanSLockShared(s) == Writing(s) = {}

CanSLock(s) == Writing(s) = {} /\ Reading(s) = {}
CanSRLock(s) == Writing(s) = {}

\* s.lock.Lock() or s.lock.RLock() at the head of a method.
Enter(p, op, s, key, val) ==
  /\ Starts(p)
  /\ s \in 1..Len(heap)
  /\ pc' = [pc EXCEPT ![p] = op]
  /\ frame' = [frame EXCEPT ![p] = DataFrame(op, s, key, val)]
  /\ resp' = NoResp
  /\ calls' = calls + 1
  /\ UNCHANGED <<impl, cfg, sessions, heap, readers, writer, now, updates,
                 timers, removed>>

\* The return of a method, its deferred unlock included.
Leave(p, r) ==
  /\ pc' = [pc EXCEPT ![p] = "idle"]
  /\ frame' = [frame EXCEPT ![p] = IdleFrame]
  /\ resp' = r
  /\ UNCHANGED <<impl, cfg, sessions, readers, writer, now, updates, timers,
                 calls, removed>>

SetLock(p, s, key, val) == CanSLock(s) /\ Enter(p, "set", s, key, val)

SetBody(p) ==
  /\ pc[p] = "set"
  /\ LET f == frame[p] IN
     /\ heap' = [heap EXCEPT ![f.s].sd = Put(@, f.key, f.val)]
     /\ Leave(p, DataResp("Set", f.s, f.key, f.val, TRUE))

DeleteLock(p, s, key) == CanSLock(s) /\ Enter(p, "delete", s, key, NilVal)

DeleteBody(p) ==
  /\ pc[p] = "delete"
  /\ LET f == frame[p] IN
     /\ heap' = [heap EXCEPT ![f.s].sd = Remove(@, f.key)]
     /\ Leave(p, DataResp("Delete", f.s, f.key, NilVal, TRUE))

GetLock(p, s, key) == CanSRLock(s) /\ Enter(p, "get", s, key, NilVal)

GetBody(p) ==
  /\ pc[p] = "get"
  /\ LET f == frame[p]
         sd == heap[f.s].sd IN
     /\ heap' = heap
     /\ Leave(p, DataResp("Get", f.s, f.key,
                          IF f.key \in DOMAIN sd THEN sd[f.key] ELSE NilVal,
                          f.key \in DOMAIN sd))

ExistLock(p, s, key) == CanSRLock(s) /\ Enter(p, "exist", s, key, NilVal)

ExistBody(p) ==
  /\ pc[p] = "exist"
  /\ LET f == frame[p] IN
     /\ heap' = heap
     /\ Leave(p, DataResp("Exist", f.s, f.key, NilVal,
                          f.key \in DOMAIN heap[f.s].sd))

\* New() and one SessionCreate("a"): the session the callers share.
DataInit ==
  /\ impl \in {1, 2}
  /\ cfg \in [MaxLifetime : 1..MaxLifetimeBound, CleanerInterval : {1}]
  /\ heap = <<[sessionId |-> SidA, lastAccessed |-> 0, sd |-> EmptyDict]>>
  /\ sessions = [x \in {SidA} |-> 1]
  /\ readers = 0
  /\ writer = NoProc
  /\ now = 0
  /\ pc = [p \in Procs |-> IF p = Cleaner THEN "gc_start" ELSE "idle"]
  /\ frame = [p \in Procs |-> IdleFrame]
  /\ resp = NoResp
  /\ updates = EmptyBag
  /\ timers = EmptyBag
  /\ calls = 0
  /\ removed = {}

DataNext ==
  \/ \E p \in Clients, s \in Ptrs, key \in DataKeys, val \in DataVals :
       SetLock(p, s, key, val)
  \/ \E p \in Clients : SetBody(p)
  \/ \E p \in Clients, s \in Ptrs, key \in DataKeys : DeleteLock(p, s, key)
  \/ \E p \in Clients : DeleteBody(p)
  \/ \E p \in Clients, s \in Ptrs, key \in DataKeys : GetLock(p, s, key)
  \/ \E p \in Clients : GetBody(p)
  \/ \E p \in Clients, s \in Ptrs, key \in DataKeys : ExistLock(p, s, key)
  \/ \E p \in Clients : ExistBody(p)

DataSpec == DataInit /\ [][DataNext]_vars

\* ------------------------------------- the two locks and lastAccessed
\* The Session methods, which hold the session's own lock from their first
\* statement to their return, together with the two operations that access
\* lastAccessed, SessionUpdate and GlobalCleaner, which take sm.lock only.
LockNext ==
  \/ \E p \in Clients, s \in Ptrs, key \in DataKeys, val \in DataVals :
       SetLock(p, s, key, val)
  \/ \E p \in Clients : SetBody(p)
  \/ \E p \in Clients, s \in Ptrs, key \in DataKeys : GetLock(p, s, key)
  \/ \E p \in Clients : GetBody(p)
  \/ \E p \in Clients, sid \in Sids : SessionUpdate(p, sid)
  \/ \E p \in Procs : GcBegin(p)
  \/ \E p \in Procs : GcIter(p)
  \/ \E p \in Procs : GcDelete(p)
  \/ \E p \in Procs : GcRelock(p)
  \/ \E p \in Procs : GcFinish(p)
  \/ TimerFire
  \/ Tick

LockSpec == DataInit /\ [][LockNext]_vars

\* -------------------------------------------------------------- claims
InFlightCalls == Cardinality({p \in Clients : pc[p] # "idle"})

\* Calls that have returned.
Completed == calls - InFlightCalls

\* SessionExist(sid) after the step.
ExistsAfter(sid) == sid \in DOMAIN sessions'

\* This step is the return of a call of op.
Returns(op) == Completed' = Completed + 1 /\ resp'.op = op

\* C1: Create("") fails with an error and registers nothing: afterwards
\* Exists("") is false and Count is unchanged.
C1_CreateEmptyFails ==
  [][Returns("Create") /\ resp'.sid = EmptyStr =>
       /\ resp'.err # "nil"
       /\ ~SessionExist(EmptyStr)'
       /\ SessionCount' = SessionCount]_vars

\* C2: Read never returns neither a session nor an error: when the request
\* does not resolve to a non-empty identifier, or resolves to one that is not
\* registered, Read returns an error and no session; when it resolves to a
\* registered identifier, Read returns the session registered under it.
C2_ReadSessionOrError ==
  [][\A p \in Clients, r \in Requests, fl \in Flags :
       SessionRead(p, r, fl) =>
         LET g == GetSessionId(r, fl) IN
         IF g.err = "nil" /\ g.sid # EmptyStr /\ g.sid \in DOMAIN sessions
           THEN resp'.s = sessions[g.sid] /\ resp'.err = "nil"
           ELSE resp'.s = Nil /\ resp'.err # "nil"]_vars

\* C3 as stated: for every oldId, newId with oldId registered at the call,
\* Refresh(oldId, newId) leaves Exists(oldId) false and Exists(newId) true, and
\* the returned session's identifier is newId.
C3_RefreshRenamesAnyPair ==
  [][Returns("Refresh") /\ resp'.ok =>
       /\ ~ExistsAfter(resp'.old)
       /\ ExistsAfter(resp'.sid)
       /\ heap'[resp'.s].sessionId = resp'.sid]_vars

\* C3 amended: the same for every oldId, newId with oldId # newId.
C3_RefreshRenames ==
  [][Returns("Refresh") /\ resp'.ok /\ resp'.old # resp'.sid =>
       /\ ~ExistsAfter(resp'.old)
       /\ ExistsAfter(resp'.sid)
       /\ heap'[resp'.s].sessionId = resp'.sid]_vars

\* A rename from one identifier to another has returned.
C3_Witness ==
  /\ resp.op = "Refresh" /\ resp.ok /\ resp.old # resp.sid
  /\ resp.sid \in DOMAIN sessions /\ sessions[resp.sid] = resp.s
  /\ resp.old \notin DOMAIN sessions

\* What Create(newId) does: a fresh session with identifier newId, empty data
\* and lastAccessed = now, registered at newId, nothing else touched.
LikeCreate(r) ==
  /\ r.err = "nil"
  /\ r.s = Len(heap) + 1
  /\ heap' = Append(heap, [sessionId |-> r.sid, lastAccessed |-> now,
                           sd |-> EmptyDict])
  /\ sessions' = [x \in DOMAIN sessions \cup {r.sid} |->
                    IF x = r.sid THEN r.s ELSE sessions[x]]

\* C4 as stated: Refresh(oldId, newId) with oldId not registered behaves
\* exactly like Create(newId), and no entry is created at oldId.
C4_RefreshCreatesNothingAtOld ==
  [][Returns("Refresh") /\ ~resp'.ok =>
       /\ LikeCreate(resp')
       /\ ExistsAfter(resp'.old) => SessionExist(resp'.old)]_vars

\* C4 amended: it behaves exactly like Create(newId): it never fails, the
\* returned session is new, has empty data and identifier newId and is the
\* record registered at newId afterwards; no entry is created at oldId unless
\* oldId = newId.
C4_RefreshCreates ==
  [][Returns("Refresh") /\ ~resp'.ok =>
       /\ LikeCreate(resp')
       /\ resp'.old # resp'.sid /\ ExistsAfter(resp'.old) =>
            SessionExist(resp'.old)]_vars

\* A Refresh of an unregistered oldId has replaced the session at newId.
C4_Witness ==
  /\ resp.op = "Refresh" /\ ~resp.ok /\ resp.old # resp.sid
  /\ resp.s = 2 /\ sessions[resp.sid] = 2 /\ heap[1].sessionId = resp.sid
  /\ heap[1].sd # EmptyDict /\ heap[2].sd = EmptyDict
  /\ resp.old \notin DOMAIN sessions

\* C5: Destroy(id) on an unregistered id returns an error and leaves the
\* table unchanged; on a registered id it succeeds and removes exactly that
\* entry; either way id is not registered afterwards.
C5_Destroy ==
  [][Returns("Destroy") =>
       /\ heap' = heap
       /\ ~ExistsAfter(resp'.sid)
       /\ IF resp'.sid \in DOMAIN sessions
            THEN /\ resp'.err = "nil"
                 /\ sessions' = [x \in DOMAIN sessions \ {resp'.sid} |-> sessions[x]]
            ELSE /\ resp'.err # "nil"
                 /\ sessions' = sessions]_vars

\* The second of two Destroys of a session, no call in between: not found.
C5_Witness ==
  /\ resp.op = "Destroy" /\ resp.err # "nil"
  /\ calls = 3 /\ Len(heap) = 1 /\ heap[1].sessionId = resp.sid
  /\ SessionCount = 0

\* p is between the first lock and the last unlock of GlobalCleaner.
Sweeping(p) == pc[p] \in {"gc_iter", "gc_del", "gc_relock"}

\* C6: when no other registry operation runs concurrently, a sweep removes
\* only entries idle for strictly more than MaxLifetime, has removed every
\* entry that was idle that long at its start when its scan is over, and
\* leaves the kept sessions' records, data and lastAccessed unchanged.
C6_SweepAlone ==
  [][\A p \in Procs : Sweeping(p) =>
       /\ heap' = heap
       /\ DOMAIN sessions' \subseteq DOMAIN sessions
       /\ \A k \in DOMAIN sessions :
            IF k \in DOMAIN sessions'
              THEN sessions'[k] = sessions[k]
              ELSE now - heap[sessions[k]].lastAccessed > cfg.MaxLifetime
       /\ ~Sweeping(p)' =>
            \A k \in DOMAIN sessions' :
              frame[p].t0 - heap[sessions'[k]].lastAccessed <= cfg.MaxLifetime]_vars

\* Two sessions were created and no other call was made: a sweep has evicted
\* the older one and kept the younger one.
C6_Witness ==
  /\ calls = 2 /\ Len(heap) = 2 /\ \A p \in Procs : ~Sweeping(p)
  /\ heap[1].sessionId # heap[2].sessionId
  /\ heap[1].sessionId \notin DOMAIN sessions
  /\ now - heap[1].lastAccessed > cfg.MaxLifetime
  /\ heap[2].sessionId \in DOMAIN sessions /\ sessions[heap[2].sessionId] = 2
  /\ now - heap[2].lastAccessed <= cfg.MaxLifetime

\* C9 as stated: the number of pending future sweeps is never increased by
\* an invocation of GlobalCleaner (nor by anything else).
C9_SweepSchedulesNothing ==
  [][BagCardinality(timers') <= BagCardinality(timers)]_vars

\* C9 amended: one invocation of GlobalCleaner performs one scan of the table
\* and, when the scan is over, schedules exactly one further invocation after
\* CleanerInterval; nothing else schedules a sweep, and a scheduled sweep
\* starts only by consuming its timer.
C9_SweepReschedulesItself ==
  [][/\ \A p \in Procs :
         Sweeping(p) /\ ~Sweeping(p)' =>
           /\ frame[p].todo = {}
           /\ BagCardinality(timers') = BagCardinality(timers) + 1
           /\ CopiesIn(Min(now + cfg.CleanerInterval, MaxTime), timers')
                = CopiesIn(Min(now + cfg.CleanerInterval, MaxTime), timers) + 1
     /\ (\A p \in Procs : Sweeping(p) => Sweeping(p)') =>
           BagCardinality(timers') <= BagCardinality(timers)
     /\ pc[Cleaner] = "idle" /\ pc'[Cleaner] # "idle" =>
           BagCardinality(timers') = BagCardinality(timers) - 1]_vars

\* The background sweep and a client's sweep have both run: two sweeps pend.
C9_Witness ==
  /\ BagCardinality(timers) = 2
  /\ \A p \in Procs : pc[p] = "idle"
  /\ resp.op = "GlobalCleaner"

\* Every call so far has returned and created a session, the identifiers are
\* non-empty and pairwise distinct, and no session is old enough to be evicted.
OnlyCreates ==
  /\ InFlightCalls = 0
  /\ calls = Len(heap)
  /\ \A i \in 1..Len(heap) :
       /\ heap[i].sessionId # EmptyStr
       /\ now - heap[i].lastAccessed <= cfg.MaxLifetime
       /\ \A j \in 1..Len(heap) : heap[i].sessionId = heap[j].sessionId => i = j

\* C10: after n concurrent creations with pairwise distinct non-empty
\* identifiers on an empty registry have all returned, SessionCount is n; every
\* successful Destroy lowers SessionCount by exactly one, so it is n - k after
\* k of them (no session being old enough for the sweep to evict).
C10_CountAfterCreatesAndDestroys ==
  [][/\ OnlyCreates' => SessionCount' = Len(heap')
     /\ Returns("Destroy") /\ resp'.err = "nil" => SessionCount' = SessionCount - 1
     /\ Returns("Destroy") /\ resp'.err # "nil" => SessionCount' = SessionCount]_vars

\* Two sessions were created, then one of them was destroyed: one is left.
C10_Witness ==
  /\ calls = 3 /\ Len(heap) = 2 /\ InFlightCalls = 0
  /\ heap[1].sessionId # heap[2].sessionId
  /\ resp.op = "Destroy" /\ resp.err = "nil"
  /\ now - heap[1].lastAccessed <= cfg.MaxLifetime
  /\ now - heap[2].lastAccessed <= cfg.MaxLifetime
  /\ SessionCount = 1

\* Identifier k is registered to record o, last accessed at t.
Registered(k, o, t) ==
  /\ k \in DOMAIN sessions /\ sessions[k] = o
  /\ heap[o].lastAccessed = t

\* C7: under the first definition, fairly scheduled, every registered session
\* whose idle time the clock can exceed is eventually removed by the sweep
\* unless it is updated, recreated or refreshed.
C7_IdleSessionEvicted ==
  \A k \in Sids, o \in Ptrs, t \in 0..MaxTime :
    (Registered(k, o, t) /\ t + cfg.MaxLifetime < MaxTime)
      ~> ~Registered(k, o, t)

\* C8: under the first definition, fairly scheduled, the update that a
\* successful Read scheduled for sid eventually executes.
C8_ScheduledUpdateRuns ==
  \A sid \in Sids : (sid \in BagToSet(updates)) ~> (sid \notin BagToSet(updates))

\* C11: ReadOrCreate without interference: when the identifier resolution
\* fails it returns an error and no session and registers nothing; when the
\* resolved identifier is registered it returns the registered session and
\* alters no data; when it is not registered it registers a fresh session
\* (empty data, that identifier, lastAccessed = now) and returns it.
C11_ReadOrCreate ==
  [][/\ \A p \in Clients, r \in Requests, fl \in Flags :
          SessionReadOrCreate(p, r, fl) =>
            LET g == GetSessionId(r, fl) IN
            /\ sessions' = sessions /\ heap' = heap
            /\ g.err # "nil" \/ g.sid = EmptyStr =>
                 resp'.op = "ReadOrCreate" /\ resp'.s = Nil /\ resp'.err # "nil"
            /\ g.err = "nil" /\ g.sid \in DOMAIN sessions \ {EmptyStr} =>
                 /\ resp'.op = "ReadOrCreate" /\ resp'.err = "nil"
                 /\ resp'.s = sessions[g.sid]
     /\ Returns("ReadOrCreate") /\ resp'.err = "nil" /\ ~resp'.ok =>
          /\ resp'.sid \notin DOMAIN sessions
          /\ LikeCreate(resp')
          /\ ExistsAfter(resp'.sid)]_vars

\* C12 as stated: GetSessionIdFromHeader returns an error and an empty
\* identifier when header extraction is disabled, when the header is absent
\* and when its value is empty; it returns the header's first value and no
\* error only when extraction is enabled and that value is not empty.
C12_FromHeader ==
  resp.op = "GetSessionIdFromHeader" =>
    LET h == resp.req.header IN
    IF resp.fl.EnableHttpHeader /\ h.found /\ Len(h.vals) # 0 /\ h.vals[1] # EmptyStr
      THEN resp.sid = h.vals[1] /\ resp.err = "nil"
      ELSE resp.sid = EmptyStr /\ resp.err # "nil"

\* C13 as stated: GetSessionIdFromCookie returns an error and an empty
\* identifier when the cookie is absent, when its value is empty and when the
\* value does not unescape; otherwise it returns the unescaped value, no error.
C13_FromCookie ==
  resp.op = "GetSessionIdFromCookie" =>
    LET c == resp.req.cookie IN
    IF ~c.present \/ c.value = EmptyStr \/ BadEscape(c.value, 1)
      THEN resp.sid = EmptyStr /\ resp.err # "nil"
      ELSE resp.sid = Unescaped(c.value, 1) /\ resp.err = "nil"

\* C14: precedence of GetSessionId: with a valid non-empty cookie and the
\* header, extraction enabled, the result is the cookie's (unescaped) value;
\* with no cookie and the header, extraction enabled, it is the header's first
\* value; with no cookie and the header, extraction disabled, it is an error
\* and the empty identifier.
C14_Precedence ==
  resp.op = "GetSessionId" =>
    LET c == resp.req.cookie
        h == resp.req.header
        on == resp.fl.EnableHttpHeader IN
    /\ c.present /\ c.value = SidA /\ h.found /\ Len(h.vals) # 0 /\ on =>
         resp.sid = SidA /\ resp.err = "nil"
    /\ c.present /\ c.value = <<37, 54, 50>> /\ h.found /\ Len(h.vals) # 0 /\ on =>
         resp.sid = SidB /\ resp.err = "nil"
    /\ ~c.present /\ h.found /\ Len(h.vals) # 0 /\ on =>
         resp.sid = h.vals[1] /\ resp.err = "nil"
    /\ ~c.present /\ h.found /\ ~on =>
         resp.sid = EmptyStr /\ resp.err # "nil"

\* The cookie "a" has won over the enabled header, whose first value is "b".
C14_Witness ==
  /\ resp.op = "GetSessionId"
  /\ resp.req.cookie.present /\ resp.req.cookie.value = SidA
  /\ resp.req.header.found /\ resp.req.header.vals = <<SidB, SidA>>
  /\ resp.fl.EnableHttpHeader
  /\ resp.sid = SidA

\* C15: a cookie that is present, non-empty and does not unescape makes
\* GetSessionId fail with an error and the empty identifier, also when header
\* extraction is enabled and the header carries a valid value.
C15_MalformedCookie ==
  resp.op = "GetSessionId" =>
    LET c == resp.req.cookie IN
    c.present /\ c.value = <<37>> => resp.sid = EmptyStr /\ resp.err # "nil"

\* The cookie "%" has failed although the enabled header carried "b".
C15_Witness ==
  /\ resp.op = "GetSessionId"
  /\ resp.req.cookie.present /\ resp.req.cookie.value = <<37>>
  /\ resp.req.header.found /\ resp.req.header.vals = <<SidB>>
  /\ resp.fl.EnableHttpHeader
  /\ resp.err = "EscapeError"

\* C16: Create(id) for a non-empty id registers a new session at id with empty
\* data, identifier id and lastAccessed = now, in place of any session
\* registered there before, returns that session and leaves every other entry
\* and every other session unchanged; id is registered afterwards.
C16_Create ==
  [][Returns("Create") /\ resp'.sid # EmptyStr =>
       /\ LikeCreate(resp')
       /\ ExistsAfter(resp'.sid)
       /\ sessions'[resp'.sid] = resp'.s
       /\ \A k \in DOMAIN sessions \ {resp'.sid} :
            k \in DOMAIN sessions' /\ sessions'[k] = sessions[k]]_vars

\* A Create has replaced a session that held data.
C16_Witness ==
  /\ resp.op = "Create" /\ resp.sid = SidA /\ resp.s = 2
  /\ Len(heap) = 2 /\ heap[1].sessionId = SidA /\ heap[1].sd # EmptyDict
  /\ sessions[SidA] = 2 /\ heap[2].sd = EmptyDict

\* C17: Update(id) on a registered id sets that session's lastAccessed to the
\* current time, returns success and changes nothing else; on an unregistered
\* id it returns an error and changes nothing.
C17_Update ==
  [][Returns("Update") =>
       /\ sessions' = sessions
       /\ IF resp'.sid \in DOMAIN sessions
            THEN /\ resp'.err = "nil"
                 /\ heap'[sessions[resp'.sid]].lastAccessed = now
                 /\ \A i \in 1..Len(heap) :
                      /\ heap'[i].sd = heap[i].sd
                      /\ heap'[i].sessionId = heap[i].sessionId
                      /\ i # sessions[resp'.sid] =>
                           heap'[i].lastAccessed = heap[i].lastAccessed
                 /\ Len(heap') = Len(heap)
            ELSE /\ resp'.err # "nil"
                 /\ heap' = heap]_vars

\* An Update has stamped a session that was created earlier and holds data.
C17_Witness ==
  /\ resp.op = "Update" /\ resp.err = "nil"
  /\ calls = 3 /\ Len(heap) = 1 /\ now = 2
  /\ resp.sid \in DOMAIN sessions
  /\ heap[sessions[resp.sid]].lastAccessed = 2
  /\ heap[sessions[resp.sid]].sd # EmptyDict

\* A writer of a session's data is alone in it.
MutualExclusion ==
  \A s \in 1..Len(heap) :
    Writing(s) # {} => Cardinality(Writing(s)) = 1 /\ Reading(s) = {}

\* Key k of session s is the same before and after the step.
SameAt(s, k) ==
  /\ (k \in DOMAIN heap'[s].sd) = (k \in DOMAIN heap[s].sd)
  /\ k \in DOMAIN heap[s].sd => heap'[s].sd[k] = heap[s].sd[k]

\* C18: each Session is a linearizable map: every Get, Exist, Set and Delete
\* takes effect in one step between its call and its return, alone in the
\* session if it writes; at that step Set(k, v) makes k hold v (nil included)
\* and Delete(k) makes k absent, both leaving every other key as it was (no
\* lost update, a Delete of an absent key changes nothing), Get(k) returns
\* what k holds or nil and Exist(k) tells whether k is present; nothing else
\* changes a session's data.
C18_SessionMap ==
  [][/\ MutualExclusion'
     /\ Completed' = Completed => heap' = heap
     /\ Returns("Set") =>
          /\ resp'.key \in DOMAIN heap'[resp'.s].sd
          /\ heap'[resp'.s].sd[resp'.key] = resp'.val
          /\ \A k \in DataKeys \ {resp'.key} : SameAt(resp'.s, k)
     /\ Returns("Delete") =>
          /\ resp'.key \notin DOMAIN heap'[resp'.s].sd
          /\ \A k \in DataKeys \ {resp'.key} : SameAt(resp'.s, k)
          /\ resp'.key \notin DOMAIN heap[resp'.s].sd => heap' = heap
     /\ Returns("Get") =>
          /\ heap' = heap
          /\ resp'.val = IF resp'.key \in DOMAIN heap[resp'.s].sd
                           THEN heap[resp'.s].sd[resp'.key]
                           ELSE NilVal
     /\ Returns("Exist") =>
          /\ heap' = heap
          /\ resp'.ok = (resp'.key \in DOMAIN heap[resp'.s].sd)]_vars

\* Two Sets to distinct keys, one of them of nil, have returned: both keys
\* hold their values.
C18_Witness ==
  /\ calls = 2 /\ InFlightCalls = 0 /\ resp.op = "Set"
  /\ DOMAIN heap[1].sd = {"k", "j"}
  /\ heap[1].sd["k"] = "v" /\ heap[1].sd["j"] = NilVal

\* C19: every return path of the first SessionRead releases the table's read
\* lock: the read locks held are those of the sweeps that are in their scan,
\* so that after a Read that failed with "not found" nobody holds the lock.
C19_ReadReleasesLock ==
  readers = Cardinality({p \in Procs : impl = 1 /\ pc[p] = "gc_iter"})

\* C20: Refresh(id, id) on a registered id leaves id registered: afterwards
\* Exists(id) is true, Count is unchanged and the entry at id is the session
\* that Refresh returned, with its data intact.
C20_RefreshSameId ==
  [][Returns("Refresh") /\ resp'.ok /\ resp'.old = resp'.sid =>
       /\ ExistsAfter(resp'.sid)
       /\ SessionCount' = SessionCount
       /\ sessions'[resp'.sid] = resp'.s
       /\ heap'[resp'.s].sd = heap[resp'.s].sd]_vars

\* C21: in the first definition, under any interleaving of Create, Refresh,
\* Destroy, ReadOrCreate and Sweep, every table entry id -> s has
\* s.sessionId = id, and no session is registered under two identifiers.
C21_IdentityUnique ==
  impl = 1 =>
    /\ \A id \in DOMAIN sessions : heap[sessions[id]].sessionId = id
    /\ \A i, j \in DOMAIN sessions : sessions[i] = sessions[j] => i = j

\* C22: a session removed from the table by a successful Destroy or by a
\* sweep is never registered again under any identifier, not even by a
\* Refresh(oldId, newId) of the first definition that runs concurrently with
\* the Destroy(oldId).
C22_RemovedStaysOut == \A k \in DOMAIN sessions : sessions[k] \notin removed

\* C23: two concurrent ReadOrCreate calls for one unregistered identifier
\* return the same session, the one registered at the identifier once both
\* have returned; and a ReadOrCreate, racing with a Create or not, returns a
\* session that is registered at its identifier when it returns.  The first
\* half is stated for two calls that return one right after the other: the
\* second was past its lookup (it found nothing) when the first returned the
\* session it had created.
C23_ReadOrCreateAgree ==
  [][/\ Returns("ReadOrCreate") /\ resp'.s # Nil =>
          sessions'[resp'.sid] = resp'.s
     /\ (/\ resp.op = "ReadOrCreate" /\ resp.s # Nil /\ ~resp.ok
         /\ Returns("ReadOrCreate") /\ resp'.s # Nil /\ ~resp'.ok
         /\ resp'.sid = resp.sid) =>
          /\ resp'.s = resp.s
          /\ sessions'[resp.sid] = resp.s]_vars

\* C24: the sweep of the first definition inspects an entry under the read
\* lock and deletes it under a write lock it takes afterwards, without a
\* second look: what it found expired it removes, whatever is registered at
\* the identifier by then.  So an Update(id) or a Create(id) that completes
\* between the two does not save id from the removal.
C24_SweepEvictsUnchecked ==
  [][\A p \in Procs :
       /\ pc[p] = "gc_iter" /\ pc'[p] = "gc_del" =>
            /\ impl = 1
            /\ frame'[p].sid \in DOMAIN sessions
            /\ Expired(sessions[frame'[p].sid])
            /\ sessions' = sessions
       /\ pc[p] = "gc_del" /\ pc'[p] # "gc_del" =>
            sessions' = [k \in DOMAIN sessions \ {frame[p].sid} |-> sessions[k]]]_vars

\* One session was created and one Update of it has returned; the background
\* sweep has just removed the session, and the session is not expired.  The
\* Update came after the inspection (which found the session expired, and time
\* does not go back) and before the removal (after it, Update finds nothing).
C24_Witness ==
  /\ impl = 1 /\ pc[Cleaner] = "gc_relock"
  /\ calls = 2 /\ InFlightCalls = 0 /\ Len(heap) = 1
  /\ removed = {1} /\ sessions = [x \in {} |-> Nil]
  /\ heap[1].lastAccessed > 0
  /\ now - heap[1].lastAccessed <= cfg.MaxLifetime

\* C25: the sweep of the second definition holds the table's write lock for
\* its whole scan, so its check and its delete of an entry are one step for
\* Update, Create, Refresh and Destroy: while the lock is held no session is
\* created, stamped or renamed and the table changes only by the sweep's
\* removal of an entry whose session has now - lastAccessed > MaxLifetime at
\* that moment.
C25_SweepAtomic ==
  [][impl = 2 /\ writer # NoProc =>
       /\ Sweeping(writer)
       /\ Len(heap') = Len(heap)
       /\ \A s \in 1..Len(heap) :
            /\ heap'[s].lastAccessed = heap[s].lastAccessed
            /\ heap'[s].sessionId = heap[s].sessionId
       /\ \/ sessions' = sessions
          \/ \E sid \in DOMAIN sessions :
               /\ now - heap[sessions[sid]].lastAccessed > cfg.MaxLifetime
               /\ sessions' = [k \in DOMAIN sessions \ {sid} |-> sessions[k]]]_vars

\* Two sessions were created and no other call was made: the background sweep
\* of the second definition, still in its scan, has removed the expired one
\* and the younger one is registered.
C25_Witness ==
  /\ impl = 2 /\ writer = Cleaner /\ pc[Cleaner] = "gc_iter"
  /\ calls = 2 /\ InFlightCalls = 0 /\ Len(heap) = 2
  /\ removed = {1} /\ now - heap[1].lastAccessed > cfg.MaxLifetime
  /\ heap[2].sessionId \in DOMAIN sessions /\ sessions[heap[2].sessionId] = 2
  /\ now - heap[2].lastAccessed <= cfg.MaxLifetime

\* C26 as stated: every access to a session's lastAccessed is made under that
\* session's own lock, so no Update writes it while another goroutine holds
\* the session's lock, and no sweep reads it while another goroutine holds the
\* session's write lock.
C26_UnderSessionLock ==
  [][/\ \A s \in 1..Len(heap) :
          heap'[s].lastAccessed # heap[s].lastAccessed => CanSLock(s)
     /\ \A p \in Procs : pc[p] = "gc_iter" =>
          \A sid \in frame[p].todo \ frame'[p].todo : CanSRLock(sessions[sid])]_vars

\* C26: every access to a session's lastAccessed is made under the table's
\* lock: Update writes it in a step that has the write lock of sm.lock to
\* itself, and a sweep in its scan holds the read lock of sm.lock (first
\* definition) or its write lock (second).  The session's own lock is not
\* taken.
C26_UnderTableLock ==
  [][/\ \A s \in 1..Len(heap) :
          heap'[s].lastAccessed # heap[s].lastAccessed =>
            writer = NoProc /\ readers = 0
     /\ \A p \in Procs : pc[p] = "gc_iter" =>
          IF impl = 1 THEN readers > 0 /\ writer = NoProc ELSE writer = p]_vars

\* An Update has just stamped a session while another goroutine is inside
\* Set on that session, holding the session's write lock.
C26_Witness ==
  /\ resp.op = "Update" /\ resp.ok
  /\ heap[sessions[resp.sid]].lastAccessed = now /\ now > 0
  /\ Writing(sessions[resp.sid]) # {}

\* C27: Refresh(oldId, newId) on a registered oldId, newId # oldId, moves the
\* session without altering it: the session it returns is the one it found
\* registered at oldId, of which only the identifier field changes (data and
\* lastAccessed stay, and so does every other session), it is registered at
\* newId and nothing is registered at oldId afterwards, and every other table
\* entry is unchanged.  The first definition finds the session in one step
\* (under the read lock) and moves it in a later one.
C27_RefreshMovesIntact ==
  [][/\ \A p \in Clients :
          /\ pc[p] = "idle" /\ pc'[p] = "rf_move" =>
               /\ frame'[p].old \in DOMAIN sessions
               /\ frame'[p].s = sessions[frame'[p].old]
          /\ pc[p] = "rf_move" /\ pc'[p] = "rf_move" => frame'[p] = frame[p]
     /\ Returns("Refresh") /\ resp'.ok /\ resp'.old # resp'.sid =>
          /\ IF impl = 1
               THEN \E p \in Clients :
                      /\ pc[p] = "rf_move" /\ pc'[p] = "idle"
                      /\ frame[p].s = resp'.s
                      /\ frame[p].old = resp'.old /\ frame[p].sid = resp'.sid
               ELSE /\ resp'.old \in DOMAIN sessions
                    /\ sessions[resp'.old] = resp'.s
          /\ resp'.err = "nil"
          /\ heap' = [heap EXCEPT ![resp'.s].sessionId = resp'.sid]
          /\ ExistsAfter(resp'.sid) /\ sessions'[resp'.sid] = resp'.s
          /\ ~ExistsAfter(resp'.old)
          /\ \A k \in (DOMAIN sessions \cup DOMAIN sessions')
                        \ {resp'.old, resp'.sid} :
               /\ k \in DOMAIN sessions /\ ExistsAfter(k)
               /\ sessions'[k] = sessions[k]]_vars

\* Two sessions were created; later, a Refresh has moved one of them to a
\* third identifier: it keeps the lastAccessed of its creation and the other
\* session is still registered where it was.
C27_Witness ==
  /\ resp.op = "Refresh" /\ resp.ok /\ resp.old # resp.sid
  /\ calls = 3 /\ InFlightCalls = 0 /\ Len(heap) = 2 /\ SessionCount = 2
  /\ sessions[resp.sid] = resp.s /\ heap[resp.s].sessionId = resp.sid
  /\ heap[resp.s].lastAccessed < now
  /\ \E k \in DOMAIN sessions \ {resp.sid} :
       sessions[k] # resp.s /\ heap[sessions[k]].sessionId = k

====
